---- MODULE Spec2Model ----
(***************************************************************************)
(* State machine of the useNetworkDevices hook (the variant without React  *)
(* Query, frontend-fix-examples/useNetworkDevicesNoQuery.ts): a polling,   *)
(* stale-while-revalidate cache of the device list.                        *)
(*                                                                         *)
(* JavaScript is single threaded: every action below is one task of the    *)
(* event loop.  The synchronous prefix of fetchDevices (lines 36-54, up to *)
(* the first await) runs inside the task that called it (effect, interval  *)
(* callback, refetch()); its continuation (lines 56-88) runs when the      *)
(* request settles, in the actions CompleteOk and CompleteThrow.  The two   *)
(* awaits (fetch, then response.json()) write no state between them and    *)
(* are one completion.                                                     *)
(*                                                                         *)
(* The setters and the refs are written wherever the code writes them,     *)
(* also after the unmount: the hook has no guard of its own.               *)
(*                                                                         *)
(* fetch() follows the Fetch standard: a request whose signal was aborted  *)
(* settles by rejecting with an AbortError, whether the abort came before  *)
(* the response or while the body was read.                                *)
(*                                                                         *)
(* Spec is this hook, with the consumer NetworkDeviceList as a function of *)
(* its state.  QSpec is the React Query variant of the hook: the retry     *)
(* loop useQuery runs with the options `retry` and `retryDelay`.           *)
(***************************************************************************)
EXTENDS Integers, Sequences, FiniteSets, TLC

\* Bounds of the model.
MaxRequests == 4      \* requests issued in one behaviour
MaxDevices == 1       \* devices in one snapshot

(***************************************************************************)
(* Devices.  A parsed JSON object keeps its keys in the order of the       *)
(* response text, so a device is a sequence of <<key, value>> pairs.  Two  *)
(* of the fields of NetworkDevice are modelled: id and status.             *)
(***************************************************************************)
DeviceObjects ==
  { << <<"id", "1">>, <<"status", "online">> >>,
    << <<"status", "online">>, <<"id", "1">> >>,
    << <<"id", "1">>, <<"status", "offline">> >> }

RECURSIVE SeqsUpTo(_, _)
SeqsUpTo(S, n) ==
  IF n = 0 THEN { <<>> }
  ELSE LET shorter == SeqsUpTo(S, n - 1)
       IN  shorter \cup { Append(s, x) : s \in shorter, x \in S }

\* The bodies GET /api/devices can answer with.
Snapshots == SeqsUpTo(DeviceObjects, MaxDevices)

(***************************************************************************)
(* JSON.stringify, as a sequence of tokens: members are written in key     *)
(* order of the object, elements in array order.                           *)
(***************************************************************************)
RECURSIVE StringifyMembers(_, _)
StringifyMembers(obj, i) ==
  IF i > Len(obj) THEN <<>>
  ELSE (IF i > 1 THEN <<",">> ELSE <<>>)
       \o <<obj[i][1], ":", obj[i][2]>>
       \o StringifyMembers(obj, i + 1)

StringifyObject(obj) == <<"{">> \o StringifyMembers(obj, 1) \o <<"}">>

RECURSIVE StringifyElements(_, _)
StringifyElements(arr, i) ==
  IF i > Len(arr) THEN <<>>
  ELSE (IF i > 1 THEN <<",">> ELSE <<>>)
       \o StringifyObject(arr[i])
       \o StringifyElements(arr, i + 1)

JSONStringify(arr) == <<"[">> \o StringifyElements(arr, 1) \o <<"]">>

(***************************************************************************)
(* Errors: name and message of the thrown value.                           *)
(***************************************************************************)
NoError == [name |-> "null", message |-> <<>>]

\* fetch() rejects on a network failure.
NetworkError == [name |-> "TypeError", message |-> <<"Failed to fetch">>]

\* response.json() rejects on a malformed body.
ParseError == [name |-> "SyntaxError", message |-> <<"Unexpected token">>]

\* fetch() or response.json() rejects when the signal is aborted.
AbortError == [name |-> "AbortError", message |-> <<"The operation was aborted">>]

\* Non-2xx statuses the endpoint can answer with.
FailureStatuses == {404, 500}

\* throw new Error(`HTTP error! status: ${response.status}`)
HttpError(status) ==
  [name |-> "Error", message |-> <<"HTTP error! status: ", ToString(status)>>]

\* What a request that was not aborted can throw.
Failures == {NetworkError, ParseError} \cup { HttpError(s) : s \in FailureStatuses }

VARIABLES
  enabled,             \* options.enabled of the current render
  phase,               \* "created" (rendered, effect not run), "mounted", "unmounted"
  devices,             \* useState: the published snapshot
  devicesVer,          \* number of setDevices calls: identity of `devices`
  isLoading,           \* useState
  isFetching,          \* useState
  error,               \* useState: NoError is null
  cacheRef,            \* useRef: cacheRef.current
  abortControllerRef,  \* useRef: id of the current controller, 0 is null
  aborted,             \* ids of the controllers whose signal is aborted
  inflight,            \* ids of the requests that have not settled
  nextId,              \* id of the next AbortController / request
  timer,               \* the interval of the effect is armed
  lastEvent,           \* history: the step that produced this state
  everResolved,        \* history: a fetch settled by success or by a failure other than abort
  stoppedMidFlight,    \* history: the teardown aborted a request in flight
  lastResolved,        \* history: "none", or how the latest fetch that resolved ended: "success", "fail"
  snapshotReceived,    \* history: a fetch has succeeded
  \* The React Query variant (useNetworkDevices of useNetworkDevices.ts).
  retry,               \* the `retry` option in effect: 3 unless `options` overrides it
  qPhase,              \* "fetching", "waiting" (retry delay running), "settled"
  qStatus,             \* the query's status: "pending", "success", "error"
  qData,               \* the query's data; <<>> is the consumer's default
  qHasData,            \* the query's data is not undefined
  qError,              \* the query's error: NoError is null
  failureCount,        \* the retryer's failureCount of the current fetch
  qDelay,              \* the last retry delay computed in the current fetch, 0 is none
  qFailStatus          \* history: the HTTP status behind the latest throw of queryFn, 0 is none

hookState == <<devices, devicesVer, isLoading, isFetching, error, cacheRef>>
vars == <<enabled, phase, devices, devicesVer, isLoading, isFetching, error,
          cacheRef, abortControllerRef, aborted, inflight, nextId, timer,
          lastEvent, everResolved, stoppedMidFlight, lastResolved, snapshotReceived,
          retry, qPhase, qStatus, qData, qHasData, qError, failureCount, qDelay, qFailStatus>>

\* The state of the hook without React Query.
hookVars == <<enabled, phase, devices, devicesVer, isLoading, isFetching, error,
              cacheRef, abortControllerRef, aborted, inflight, nextId, timer,
              lastEvent, everResolved, stoppedMidFlight, lastResolved, snapshotReceived>>

\* The state of the React Query variant.
queryVars == <<retry, qPhase, qStatus, qData, qHasData, qError, failureCount, qDelay, qFailStatus>>

\* retry: 3
Retry == 3

\* The query before its first fetch settles.
QueryCreated ==
  /\ qPhase = "fetching"
  /\ qStatus = "pending"
  /\ qData = <<>>
  /\ qHasData = FALSE
  /\ qError = NoError
  /\ failureCount = 0
  /\ qDelay = 0
  /\ qFailStatus = 0

Event(type, req, data, err) == [type |-> type, req |-> req, data |-> data, err |-> err]

\* The hook after its first render, before the effect has run.
HookCreated ==
  /\ phase = "created"
  /\ devices = <<>>
  /\ devicesVer = 0
  /\ isLoading = TRUE
  /\ isFetching = FALSE
  /\ error = NoError
  /\ cacheRef = <<>>
  /\ abortControllerRef = 0
  /\ aborted = {}
  /\ inflight = {}
  /\ nextId = 1
  /\ timer = FALSE
  /\ lastEvent = Event("create", 0, <<>>, NoError)
  /\ everResolved = FALSE
  /\ stoppedMidFlight = FALSE
  /\ lastResolved = "none"
  /\ snapshotReceived = FALSE

Init ==
  /\ enabled \in BOOLEAN
  /\ HookCreated
  /\ retry = Retry
  /\ QueryCreated

\* Variant: the previous controller is not aborted.
AbortCurrent_Forgets(ref, ab) == ab

\* if (abortControllerRef.current) abortControllerRef.current.abort();
AbortCurrent(ref, ab) == IF ref # 0 THEN ab \cup {ref} ELSE ab

\* Variant: every fetch is announced as a first load.
ShowsBackgroundFetch_Never(cache, isInitialLoad) == FALSE

\* The flag fetchDevices raises before it issues the request.
ShowsBackgroundFetch(cache, isInitialLoad) == Len(cache) > 0 /\ ~isInitialLoad

\* Variant: fetchDevices without `if (!enabled) return`.
FetchDevices_IgnoresEnabled(en, ab, isInitialLoad) ==
  /\ nextId <= MaxRequests
  /\ aborted' = AbortCurrent(abortControllerRef, ab)
  /\ abortControllerRef' = nextId
  /\ inflight' = inflight \cup {nextId}
  /\ nextId' = nextId + 1
  /\ IF ShowsBackgroundFetch(cacheRef, isInitialLoad)
     THEN isFetching' = TRUE /\ UNCHANGED isLoading
     ELSE isLoading' = TRUE /\ UNCHANGED isFetching

(***************************************************************************)
(* fetchDevices up to the first await, with the `enabled` of the render    *)
(* whose closure is called.                                                *)
(***************************************************************************)
FetchDevices(en, ab, isInitialLoad) ==
  IF ~en
  THEN /\ aborted' = ab
       /\ UNCHANGED <<abortControllerRef, inflight, nextId, isLoading, isFetching>>
  ELSE /\ nextId <= MaxRequests
       /\ aborted' = AbortCurrent(abortControllerRef, ab)
       /\ abortControllerRef' = nextId
       /\ inflight' = inflight \cup {nextId}
       /\ nextId' = nextId + 1
       /\ IF ShowsBackgroundFetch(cacheRef, isInitialLoad)
          THEN isFetching' = TRUE /\ UNCHANGED isLoading
          ELSE isLoading' = TRUE /\ UNCHANGED isFetching

\* The effect runs after the first render.
Start ==
  /\ phase = "created"
  /\ phase' = "mounted"
  /\ FetchDevices(enabled, aborted, TRUE)
  /\ timer' = enabled
  /\ lastEvent' = Event("start", IF enabled THEN nextId ELSE 0, <<>>, NoError)
  /\ UNCHANGED <<enabled, devices, devicesVer, error, cacheRef, everResolved, stoppedMidFlight>>
  /\ UNCHANGED <<lastResolved, snapshotReceived, queryVars>>

\* Variant: the interval callback blanks the list before it fetches.
PollTick_ClearsDevices ==
  /\ timer
  /\ FetchDevices(enabled, aborted, FALSE)
  /\ devices' = <<>>
  /\ devicesVer' = devicesVer + 1
  /\ lastEvent' = Event("poll", IF enabled THEN nextId ELSE 0, <<>>, NoError)
  /\ UNCHANGED <<enabled, phase, error, cacheRef, timer, everResolved, stoppedMidFlight>>
  /\ UNCHANGED <<lastResolved, snapshotReceived, queryVars>>

\* The interval callback.
PollTick ==
  /\ timer
  /\ FetchDevices(enabled, aborted, FALSE)
  /\ lastEvent' = Event("poll", IF enabled THEN nextId ELSE 0, <<>>, NoError)
  /\ UNCHANGED <<enabled, phase, devices, devicesVer, error, cacheRef, timer,
                 everResolved, stoppedMidFlight>>
  /\ UNCHANGED <<lastResolved, snapshotReceived, queryVars>>

\* Variant: refetch() fetches whatever `enabled` is.
Refetch_IgnoresEnabled ==
  /\ phase # "created"
  /\ FetchDevices(TRUE, aborted, FALSE)
  /\ lastEvent' = Event("refetch", nextId, <<>>, NoError)
  /\ UNCHANGED <<enabled, phase, devices, devicesVer, error, cacheRef, timer,
                 everResolved, stoppedMidFlight>>
  /\ UNCHANGED <<lastResolved, snapshotReceived, queryVars>>

\* refetch(), through the handle of the last render; the handle outlives the component.
Refetch ==
  /\ phase # "created"
  /\ FetchDevices(enabled, aborted, FALSE)
  /\ lastEvent' = Event("refetch", IF enabled THEN nextId ELSE 0, <<>>, NoError)
  /\ UNCHANGED <<enabled, phase, devices, devicesVer, error, cacheRef, timer,
                 everResolved, stoppedMidFlight>>
  /\ UNCHANGED <<lastResolved, snapshotReceived, queryVars>>

\* The cleanup of the effect; an effect that returned early has none.
Cleanup(en) == IF en THEN AbortCurrent(abortControllerRef, aborted) ELSE aborted

\* Unmount: the cleanup of the effect runs and nothing is rendered again.
Stop ==
  /\ phase = "mounted"
  /\ phase' = "unmounted"
  /\ timer' = FALSE
  /\ aborted' = Cleanup(enabled)
  /\ stoppedMidFlight' = (enabled /\ abortControllerRef \in inflight \ aborted)
  /\ lastEvent' = Event("stop", 0, <<>>, NoError)
  /\ UNCHANGED <<enabled, hookState, abortControllerRef, inflight, nextId, everResolved>>
  /\ UNCHANGED <<lastResolved, snapshotReceived, queryVars>>

\* A render with another `enabled`: cleanup of the old effect, then the new effect.
SetEnabled(b) ==
  /\ phase = "mounted"
  /\ b # enabled
  /\ enabled' = b
  /\ FetchDevices(b, Cleanup(enabled), TRUE)
  /\ timer' = b
  /\ lastEvent' = Event(IF b THEN "enable" ELSE "disable", IF b THEN nextId ELSE 0, <<>>, NoError)
  /\ UNCHANGED <<phase, devices, devicesVer, error, cacheRef, everResolved, stoppedMidFlight>>
  /\ UNCHANGED <<lastResolved, snapshotReceived, queryVars>>

\* const hasChanged = JSON.stringify(newDevices) !== JSON.stringify(cacheRef.current);
HasChanged(newDevices, cache) == JSONStringify(newDevices) # JSONStringify(cache)

\* Variant: the try block updates the ref but publishes nothing.
OnSuccess_CacheOnly(newDevices) ==
  /\ IF HasChanged(newDevices, cacheRef)
     THEN /\ cacheRef' = newDevices
          /\ UNCHANGED <<devices, devicesVer>>
     ELSE UNCHANGED <<cacheRef, devices, devicesVer>>
  /\ error' = NoError
  /\ isLoading' = FALSE
  /\ isFetching' = FALSE

\* Variant: the try block without setError(null).
OnSuccess_KeepsError(newDevices) ==
  /\ IF HasChanged(newDevices, cacheRef)
     THEN /\ cacheRef' = newDevices
          /\ devices' = newDevices
          /\ devicesVer' = devicesVer + 1
     ELSE UNCHANGED <<cacheRef, devices, devicesVer>>
  /\ UNCHANGED error
  /\ isLoading' = FALSE
  /\ isFetching' = FALSE

\* The try block after the awaits.
OnSuccess(newDevices) ==
  /\ IF HasChanged(newDevices, cacheRef)
     THEN /\ cacheRef' = newDevices
          /\ devices' = newDevices
          /\ devicesVer' = devicesVer + 1
     ELSE UNCHANGED <<cacheRef, devices, devicesVer>>
  /\ error' = NoError
  /\ isLoading' = FALSE
  /\ isFetching' = FALSE

\* Variant: no thrown value is recognised as an abort.
IsAbortError_Never(err) == FALSE

\* err instanceof Error && err.name === 'AbortError'
IsAbortError(err) == err.name = "AbortError"

\* Variant: the catch block blanks the list when a fetch fails.
OnError_ClearsDevices(err) ==
  IF IsAbortError(err)
  THEN UNCHANGED hookState
  ELSE /\ error' = err
       /\ isFetching' = FALSE
       /\ isLoading' = (IF Len(cacheRef) > 0 THEN FALSE ELSE isLoading)
       /\ devices' = <<>>
       /\ cacheRef' = <<>>
       /\ devicesVer' = devicesVer + 1

\* Variant: the catch block without setIsFetching(false).
OnError_LeavesFetching(err) ==
  IF IsAbortError(err)
  THEN UNCHANGED hookState
  ELSE /\ error' = err
       /\ isLoading' = (IF Len(cacheRef) > 0 THEN FALSE ELSE isLoading)
       /\ UNCHANGED <<isFetching, devices, devicesVer, cacheRef>>

\* Variant: the catch block calls setIsLoading(false) whatever the cache holds.
OnError_AlwaysClearsLoading(err) ==
  IF IsAbortError(err)
  THEN UNCHANGED hookState
  ELSE /\ error' = err
       /\ isFetching' = FALSE
       /\ isLoading' = FALSE
       /\ UNCHANGED <<devices, devicesVer, cacheRef>>

\* Variant: a malformed body is reported but the refresh flag is left set.
OnError_ParseLeavesFetching(err) ==
  IF IsAbortError(err)
  THEN UNCHANGED hookState
  ELSE /\ error' = err
       /\ isFetching' = (IF err.name = "SyntaxError" THEN isFetching ELSE FALSE)
       /\ isLoading' = (IF Len(cacheRef) > 0 THEN FALSE ELSE isLoading)
       /\ UNCHANGED <<devices, devicesVer, cacheRef>>

\* Variant: the catch block without the early return on AbortError.
OnError_NoAbortReturn(err) ==
  /\ error' = err
  /\ isFetching' = FALSE
  /\ isLoading' = (IF Len(cacheRef) > 0 THEN FALSE ELSE isLoading)
  /\ UNCHANGED <<devices, devicesVer, cacheRef>>

\* The catch block.
OnError(err) ==
  IF IsAbortError(err)
  THEN UNCHANGED hookState
  ELSE /\ error' = err
       /\ isFetching' = FALSE
       /\ isLoading' = (IF Len(cacheRef) > 0 THEN FALSE ELSE isLoading)
       /\ UNCHANGED <<devices, devicesVer, cacheRef>>

\* What request r can settle with.
Rejections(r) == IF r \in aborted THEN {AbortError} ELSE Failures

\* The request settles with a 2xx response whose body parses to newDevices.
CompleteOk(r, newDevices) ==
  /\ r \in inflight \ aborted
  /\ inflight' = inflight \ {r}
  /\ OnSuccess(newDevices)
  /\ everResolved' = TRUE
  /\ lastEvent' = Event("success", r, newDevices, NoError)
  /\ lastResolved' = "success"
  /\ snapshotReceived' = TRUE
  /\ UNCHANGED <<enabled, phase, abortControllerRef, aborted, nextId, timer, stoppedMidFlight>>
  /\ UNCHANGED queryVars

\* Variant: a failed fetch clears the interval.
CompleteThrow_ClearsInterval(r, err) ==
  /\ r \in inflight
  /\ err \in Rejections(r)
  /\ inflight' = inflight \ {r}
  /\ OnError(err)
  /\ timer' = (timer /\ IsAbortError(err))
  /\ everResolved' = (everResolved \/ ~IsAbortError(err))
  /\ lastEvent' = Event(IF IsAbortError(err) THEN "abort" ELSE "fail", r, <<>>, err)
  /\ lastResolved' = (IF IsAbortError(err) THEN lastResolved ELSE "fail")
  /\ UNCHANGED <<enabled, phase, abortControllerRef, aborted, nextId, stoppedMidFlight>>
  /\ UNCHANGED <<snapshotReceived, queryVars>>

\* The request settles by a throw: abort, network failure, non-2xx status, malformed body.
CompleteThrow(r, err) ==
  /\ r \in inflight
  /\ err \in Rejections(r)
  /\ inflight' = inflight \ {r}
  /\ OnError(err)
  /\ everResolved' = (everResolved \/ ~IsAbortError(err))
  /\ lastEvent' = Event(IF IsAbortError(err) THEN "abort" ELSE "fail", r, <<>>, err)
  /\ lastResolved' = (IF IsAbortError(err) THEN lastResolved ELSE "fail")
  /\ UNCHANGED <<enabled, phase, abortControllerRef, aborted, nextId, timer, stoppedMidFlight>>
  /\ UNCHANGED <<snapshotReceived, queryVars>>

Next ==
  \/ Start
  \/ PollTick
  \/ Refetch
  \/ Stop
  \/ \E b \in BOOLEAN : SetEnabled(b)
  \/ \E r \in 1..MaxRequests, newDevices \in Snapshots : CompleteOk(r, newDevices)
  \/ \E r \in 1..MaxRequests, err \in Failures \cup {AbortError} : CompleteThrow(r, err)

Spec == Init /\ [][Next]_vars

TypeOK ==
  /\ enabled \in BOOLEAN
  /\ phase \in {"created", "mounted", "unmounted"}
  /\ devices \in Snapshots
  /\ cacheRef \in Snapshots
  /\ isLoading \in BOOLEAN
  /\ isFetching \in BOOLEAN
  /\ error \in Failures \cup {NoError}
  /\ abortControllerRef \in 0..MaxRequests
  /\ aborted \subseteq 1..MaxRequests
  /\ inflight \subseteq 1..MaxRequests
  /\ nextId \in 1..(MaxRequests + 1)

(***************************************************************************)
(* The hook left running: enabled, never unmounted, a server that answers  *)
(* every request it is allowed to finish with the same list.  The interval *)
(* ticks for ever, so the ids of settled requests are used again: a        *)
(* controller created under an id starts with a signal that is not aborted.*)
(*                                                                         *)
(* Fairness: the effect runs after the first render, and every request is  *)
(* answered if it stays answerable: a request not aborted gets its         *)
(* response, an aborted one its AbortError.  Nothing bounds the time a     *)
(* response takes against the interval of the timer.                       *)
(***************************************************************************)
\* The list the server holds.
ServerList == << << <<"id", "1">>, <<"status", "online">> >> >>

\* An id no request in flight uses.
FreeId == CHOOSE i \in 1..MaxRequests : i \notin inflight

\* fetchDevices(false) up to the first await, enabled = true.
FetchDevicesAgain ==
  /\ \E i \in 1..MaxRequests : i \notin inflight
  /\ aborted' = AbortCurrent(abortControllerRef, aborted) \ {FreeId}
  /\ abortControllerRef' = FreeId
  /\ inflight' = inflight \cup {FreeId}
  /\ IF ShowsBackgroundFetch(cacheRef, FALSE)
     THEN isFetching' = TRUE /\ UNCHANGED isLoading
     ELSE isLoading' = TRUE /\ UNCHANGED isFetching
  /\ UNCHANGED nextId

\* The interval callback, any number of times.
PollTickAgain ==
  /\ timer
  /\ FetchDevicesAgain
  /\ lastEvent' = Event("poll", FreeId, <<>>, NoError)
  /\ UNCHANGED <<enabled, phase, devices, devicesVer, error, cacheRef, timer,
                 everResolved, stoppedMidFlight>>
  /\ UNCHANGED <<lastResolved, snapshotReceived, queryVars>>

\* refetch(), any number of times.
RefetchAgain ==
  /\ phase = "mounted"
  /\ FetchDevicesAgain
  /\ lastEvent' = Event("refetch", FreeId, <<>>, NoError)
  /\ UNCHANGED <<enabled, phase, devices, devicesVer, error, cacheRef, timer,
                 everResolved, stoppedMidFlight>>
  /\ UNCHANGED <<lastResolved, snapshotReceived, queryVars>>

FairInit ==
  /\ enabled = TRUE
  /\ HookCreated
  /\ retry = Retry
  /\ QueryCreated

FairNext ==
  \/ Start
  \/ PollTickAgain
  \/ RefetchAgain
  \/ \E r \in 1..MaxRequests : CompleteOk(r, ServerList)
  \/ \E r \in 1..MaxRequests : CompleteThrow(r, AbortError)

ResponseDelivery ==
  \A r \in 1..MaxRequests :
    /\ WF_vars(CompleteOk(r, ServerList))
    /\ WF_vars(CompleteThrow(r, AbortError))

FairSpec == FairInit /\ [][FairNext]_vars /\ WF_vars(Start) /\ ResponseDelivery

(***************************************************************************)
(* The React Query variant: useQuery with the options of useNetworkDevices *)
(* and fetchNetworkDevices as its queryFn.  The retryer of useQuery calls  *)
(* retryDelay with its failureCount, which counts from 0, and retries      *)
(* while failureCount < retry.                                             *)
(***************************************************************************)
\* Bound: the largest `retry` a caller passes in `options`.
MaxRetry == 6

\* retryDelay: 1000 * 2 ** attemptIndex, capped at 30000
BaseDelay == 1000
MaxDelay == 30000

Min(a, b) == IF a <= b THEN a ELSE b

\* Variant: the delay without Math.min.
RetryDelay_Uncapped(attemptIndex) == BaseDelay * 2^attemptIndex

\* retryDelay: (attemptIndex) => Math.min(1000 * 2 ** attemptIndex, 30000)
RetryDelay(attemptIndex) == Min(BaseDelay * 2^attemptIndex, MaxDelay)

\* retry: 3, or the value `...options` puts in its place.
RetryOptions == {Retry, MaxRetry}

\* throw new Error('Failed to fetch network devices')
QueryFnError == [name |-> "Error", message |-> <<"Failed to fetch network devices">>]

\* What fetchNetworkDevices throws, with the status of the response (0: no response).
QueryFnFailures ==
  {<<NetworkError, 0>>, <<ParseError, 200>>}
    \cup { <<QueryFnError, st>> : st \in FailureStatuses }

QInit ==
  /\ enabled = TRUE
  /\ HookCreated
  /\ retry \in RetryOptions
  /\ QueryCreated

\* fetchNetworkDevices returns the parsed body.
QueryFnOk(newData) ==
  /\ qPhase = "fetching"
  /\ qPhase' = "settled"
  /\ qStatus' = "success"
  /\ qData' = newData
  /\ qHasData' = TRUE
  /\ qError' = NoError
  /\ failureCount' = 0
  /\ qDelay' = 0
  /\ qFailStatus' = 0
  /\ UNCHANGED <<retry, hookVars>>

\* fetchNetworkDevices throws: the retryer waits and retries, or gives up.
QueryFnThrows(err, status) ==
  /\ qPhase = "fetching"
  /\ qFailStatus' = status
  /\ IF failureCount < retry
     THEN /\ qDelay' = RetryDelay(failureCount)
          /\ failureCount' = failureCount + 1
          /\ qPhase' = "waiting"
          /\ UNCHANGED <<qStatus, qError>>
     ELSE /\ qPhase' = "settled"
          /\ qStatus' = "error"
          /\ qError' = err
          /\ UNCHANGED <<failureCount, qDelay>>
  /\ UNCHANGED <<qData, qHasData, retry, hookVars>>

\* The retry delay has run.
QueryRetry ==
  /\ qPhase = "waiting"
  /\ qPhase' = "fetching"
  /\ UNCHANGED <<qStatus, qData, qHasData, qError, failureCount, qDelay, qFailStatus, retry, hookVars>>

\* refetchInterval: 10000, or refetch(): a settled query fetches again.
QueryRefetch ==
  /\ qPhase = "settled"
  /\ qPhase' = "fetching"
  /\ failureCount' = 0
  /\ qDelay' = 0
  /\ qStatus' = (IF qHasData THEN qStatus ELSE "pending")
  /\ qError' = (IF qHasData THEN qError ELSE NoError)
  /\ UNCHANGED <<qData, qHasData, qFailStatus, retry, hookVars>>

QNext ==
  \/ \E newData \in Snapshots : QueryFnOk(newData)
  \/ \E f \in QueryFnFailures : QueryFnThrows(f[1], f[2])
  \/ QueryRetry
  \/ QueryRefetch

QSpec == QInit /\ [][QNext]_vars

(***************************************************************************)
(* The consumer, NetworkDeviceList: which of its three returns is rendered *)
(* for the values the hook hands it.                                       *)
(***************************************************************************)
\* Variant: the error return is not restricted to an empty list.
ViewOf_ErrorHidesList(devs, loading, err) ==
  IF loading /\ Len(devs) = 0 THEN "loading"
  ELSE IF err # NoError THEN "error"
  ELSE "list"

ViewOf(devs, loading, err) ==
  IF loading /\ Len(devs) = 0 THEN "loading"
  ELSE IF err # NoError /\ Len(devs) = 0 THEN "error"
  ELSE "list"

\* The view over the hook without React Query.
View == ViewOf(devices, isLoading, error)

\* The retry button exists in the error return only.
RetryAction == View = "error"

\* {error && devices.length > 0 && <div className="warning-banner">}
WarningBanner == View = "list" /\ error # NoError /\ Len(devices) > 0

(***************************************************************************)
(* Vocabulary of the properties.                                           *)
(***************************************************************************)
\* The part of the hook a consumer reads, with the identity of `devices`.
published == <<devices, devicesVer, isLoading, isFetching, error>>

\* Requests in flight whose signal is not aborted.
Live == inflight \ aborted

\* The requests that settle in a step.
Settled(before, after) == before \ after

\* Deep equality of two snapshots: same length and, position by position,
\* the same members whatever their key order.
Members(obj) == { obj[i] : i \in 1..Len(obj) }
StructEq(a, b) ==
  /\ Len(a) = Len(b)
  /\ \A i \in 1..Len(a) : Members(a[i]) = Members(b[i])

\* C1 as stated: once `devices` is non-empty, no step makes it empty.
C1_Original == [][devices # <<>> => devices' # <<>>]_vars

\* C1, amended: a non-empty `devices` becomes empty only by a fetch that
\* succeeds with an empty device list; no start, poll tick, refetch(),
\* failure or cancellation empties it.
C1_Amended ==
  [][(devices # <<>> /\ devices' = <<>>)
       => (lastEvent'.type = "success" /\ lastEvent'.data = <<>>)]_vars

C1_Witness ==
  /\ devices # <<>>
  /\ lastEvent.type = "abort"
  /\ error # NoError

\* C2: isLoading is true exactly until the first fetch resolves (success or
\* failure other than cancellation) and false in every state after that.
C2_Claim == isLoading = ~everResolved

\* C3: a request that settles after a newer request was issued changes
\* nothing of devices, isLoading, isFetching, error; a step that settles a
\* request and changes them settles the most recently issued request.
C3_StaleResultIgnored ==
  [][(\E r \in Settled(inflight, inflight') : r # abortControllerRef)
       => UNCHANGED published]_vars

C3_Witness ==
  /\ lastEvent.type = "abort"
  /\ lastEvent.req # abortControllerRef
  /\ abortControllerRef \in Live
  /\ phase = "mounted"

\* C4: a success whose snapshot is structurally equal to `devices` leaves
\* `devices` and its identity alone, and `devices` is replaced only by a
\* success whose snapshot is structurally different.
C4_Claim ==
  [][/\ (lastEvent'.type = "success" /\ StructEq(lastEvent'.data, devices))
          => (devices' = devices /\ devicesVer' = devicesVer)
     /\ devicesVer' # devicesVer
          => (lastEvent'.type = "success" /\ ~StructEq(lastEvent'.data, devices))]_vars

\* C5: a failure other than cancellation, with a non-empty snapshot held,
\* leaves `devices` as it was, sets `error` to the failure and leaves
\* isFetching and isLoading false.
C5_FailureKeepsSnapshot ==
  [][(lastEvent'.type = "fail" /\ inflight' # inflight /\ Len(devices) > 0)
       => /\ devices' = devices
          /\ devicesVer' = devicesVer
          /\ error' = lastEvent'.err
          /\ error' # NoError
          /\ ~isFetching'
          /\ ~isLoading']_vars

C5_Witness ==
  /\ lastEvent.type = "fail"
  /\ Len(devices) > 0
  /\ error = lastEvent.err
  /\ lastEvent.req >= 2

\* C6: after a teardown that came while a fetch was in flight, nothing of
\* devices, isLoading, isFetching, error changes again, the timer is never
\* armed or fired and no request is issued.
C6_Claim ==
  [][(phase = "unmounted" /\ stoppedMidFlight)
       => /\ UNCHANGED published
          /\ nextId' = nextId
          /\ ~timer'
          /\ lastEvent'.type # "poll"]_vars

\* C7: in the state a successful fetch leaves, error is cleared, isLoading
\* and isFetching are false and `devices` is structurally equal to the
\* fetched snapshot.
C7_SuccessState ==
  lastEvent.type = "success"
    => /\ error = NoError
       /\ ~isLoading
       /\ ~isFetching
       /\ StructEq(devices, lastEvent.data)

C7_Witness ==
  /\ lastEvent.type = "success"
  /\ lastEvent.req >= 2
  /\ Len(devices) > 0
  /\ StructEq(devices, lastEvent.data)

\* C8: at most one request that is not cancelled is in flight, and every
\* step that issues a request has cancelled the controller it replaces.
C8_AtMostOneLive ==
  /\ [](Cardinality(Live) <= 1)
  /\ [][nextId' # nextId
          => /\ abortControllerRef' = nextId
             /\ Live' = {nextId}
             /\ abortControllerRef # 0 => abortControllerRef \in aborted']_vars

C8_Witness ==
  /\ Cardinality(inflight) >= 2
  /\ Cardinality(Live) = 1

\* C9: isFetching is true whenever a request that is not cancelled is in flight.
C9_Claim == Live # {} => isFetching

\* C10: the completion of a cancelled request (superseded or aborted by the
\* teardown) changes nothing of error, devices, isLoading, isFetching.
C10_CancellationSilent ==
  [][(\E r \in Settled(inflight, inflight') : r \in aborted)
       => UNCHANGED <<published, cacheRef>>]_vars

C10_Witness ==
  /\ lastEvent.type = "abort"
  /\ phase = "unmounted"
  /\ stoppedMidFlight
  /\ lastEvent.req = abortControllerRef

\* C11: while the latest resolved fetch is a failure and no snapshot was
\* ever received, the consumer renders the blocking error state with the
\* retry action.
C11_Claim ==
  (lastResolved = "fail" /\ ~snapshotReceived) => (View = "error" /\ RetryAction)

\* C12: while the latest resolved fetch is a failure and a non-empty
\* snapshot is held, the consumer renders the list with the stale snapshot
\* and the warning banner.
C12_StaleListWithWarning ==
  (lastResolved = "fail" /\ Len(devices) > 0) => (View = "list" /\ WarningBanner)

C12_Witness ==
  /\ lastResolved = "fail"
  /\ Len(devices) > 0
  /\ WarningBanner
  /\ Live # {}

\* C13: with a non-empty snapshot held, no poll tick, refetch() or failure
\* turns isLoading from false to true, and a poll tick or refetch() that
\* issues a request sets isFetching.
C13_NoReloadWithSnapshot ==
  [][(Len(devices) > 0 /\ lastEvent'.type \in {"poll", "refetch", "fail"})
       => /\ isLoading' => isLoading
          /\ nextId' # nextId => isFetching']_vars

C13_Witness ==
  /\ lastEvent.type = "refetch"
  /\ lastEvent.req # 0
  /\ Len(devices) > 0
  /\ isFetching
  /\ ~isLoading

\* C14: the effect with enabled = false issues no request and arms no
\* timer, and while enabled stays false nothing of devices, isLoading,
\* isFetching, error changes; with enabled = true the effect issues a
\* request in its own step and arms the timer, and every poll tick issues
\* one more request.
C14_StartRespectsEnabled ==
  /\ [][(lastEvent'.type = "start" /\ ~enabled)
          => /\ UNCHANGED <<published, cacheRef, nextId, inflight, abortControllerRef, aborted>>
             /\ ~timer']_vars
  /\ [][(~enabled /\ ~enabled')
          => /\ UNCHANGED <<published, nextId>>
             /\ ~timer']_vars
  /\ [][(lastEvent'.type = "start" /\ enabled)
          => /\ nextId' = nextId + 1
             /\ Live' = {nextId}
             /\ timer']_vars
  /\ [][lastEvent'.type = "poll"
          => /\ nextId' = nextId + 1
             /\ Live' = {nextId}]_vars

C14_Witness ==
  /\ phase = "mounted"
  /\ ~enabled
  /\ nextId = 1
  /\ lastEvent.type = "refetch"
  /\ published = <<<<>>, 0, TRUE, FALSE, NoError>>

\* C15: a failed fetch leaves the timer armed; while the hook is mounted and
\* enabled the timer is armed and its tick can fire, and a poll tick that
\* follows a failure issues a new request.
C15_FailureKeepsPolling ==
  /\ [][(lastEvent'.type = "fail" /\ inflight' # inflight) => timer' = timer]_vars
  /\ []((phase = "mounted" /\ enabled) => timer)
  /\ []((timer /\ nextId <= MaxRequests) => ENABLED PollTick)
  /\ [][(lastEvent'.type = "poll" /\ lastResolved = "fail")
          => /\ nextId' = nextId + 1
             /\ Live' = {nextId}]_vars

C15_Witness ==
  /\ lastEvent.type = "poll"
  /\ lastEvent.req >= 3
  /\ lastResolved = "fail"
  /\ ~snapshotReceived
  /\ timer

\* C17: a step that issues a request changes neither `devices` (value or
\* identity) nor `error`.
C17_StartKeepsData ==
  [][nextId' # nextId => UNCHANGED <<devices, devicesVer, error, cacheRef>>]_vars

C17_Witness ==
  /\ lastEvent.type = "poll"
  /\ Len(devices) > 0
  /\ error # NoError
  /\ isFetching

C19_ParseLikeTransport ==
  [][(lastEvent'.type = "fail" /\ lastEvent'.err = ParseError)
       => \A r \in Settled(inflight, inflight') :
            \A d \in {devices'}, l \in {isLoading'}, f \in {isFetching'} :
              /\ error' # NoError
              /\ ENABLED (/\ CompleteThrow(r, NetworkError)
                          /\ devices' = d
                          /\ isLoading' = l
                          /\ isFetching' = f
                          /\ error' # NoError)]_vars

C19_Witness ==
  /\ lastEvent.type = "fail"
  /\ lastEvent.err = ParseError
  /\ error = ParseError
  /\ Len(devices) > 0

\* The message of an error holds the status code of the response.
CarriesStatus(err, status) ==
  \E i \in 1..Len(err.message) : err.message[i] = ToString(status)

\* C16: a response with a non-2xx status ends the fetch as a failure does
\* (data kept, error set), and the error stored carries the status code of
\* that response.
C16_Claim ==
  /\ [][(qPhase = "fetching" /\ qPhase' # "fetching" /\ qFailStatus' \in FailureStatuses)
          => /\ qData' = qData
             /\ qPhase' = "settled" => (qStatus' = "error" /\ qError' # NoError)]_vars
  /\ [](( qStatus = "error" /\ qError # NoError /\ qFailStatus \in FailureStatuses)
          => CarriesStatus(qError, qFailStatus))

\* C20: with retry: 3 a failing fetch is retried at most 3 times; the delay
\* before retry number n is min(1000 * 2^n, 30000); the delays of one fetch
\* never decrease and never exceed 30000.
C20_BoundedBackoff ==
  /\ [](retry = 3 => failureCount <= 3)
  /\ [](failureCount <= retry)
  /\ [][failureCount' = failureCount + 1
          => qDelay' = (IF 1000 * 2^failureCount <= 30000
                        THEN 1000 * 2^failureCount ELSE 30000)]_vars
  /\ [][(qDelay # 0 /\ qDelay' # 0) => qDelay' >= qDelay]_vars
  /\ [](qDelay <= 30000)

C20_Witness ==
  /\ retry = 3
  /\ qStatus = "error"
  /\ failureCount = 3
  /\ qDelay = 4000

\* C21: the published `devices` and cacheRef.current are structurally equal
\* in every state, and a step changes both or neither.
C21_CacheMirrorsDevices ==
  /\ [](StructEq(devices, cacheRef))
  /\ [][(devices' # devices) <=> (cacheRef' # cacheRef)]_vars

C21_Witness ==
  /\ devicesVer >= 2
  /\ Len(devices) > 0
  /\ StructEq(devices, cacheRef)
  /\ lastEvent.type = "success"

\* C22: whenever isFetching is true, a request that is not cancelled is in
\* flight.
C22_Claim == isFetching => Live # {}

\* C23: refetch() with enabled = false issues no request, cancels none and
\* changes nothing of devices, isLoading, isFetching, error.
C23_RefetchDisabledNoOp ==
  [][(lastEvent'.type = "refetch" /\ ~enabled)
       => UNCHANGED <<published, cacheRef, nextId, inflight, aborted,
                      abortControllerRef, timer>>]_vars

C23_Witness ==
  /\ lastEvent.type = "refetch"
  /\ lastEvent.req = 0
  /\ ~enabled
  /\ nextId >= 2
  /\ phase = "mounted"

\* C24: with the hook started and never stopped, every answer a success and
\* response delivery fair, eventually a fetch has completed, isLoading is
\* false and `devices` is the server's list.
C24_Claim ==
  <>(/\ snapshotReceived
     /\ ~isLoading
     /\ StructEq(devices, ServerList))
====
